---- MODULE Spec2Model ----
(***************************************************************************)
(* A model of the ledger core of bazuka (src/src/blockchain/mod.rs): the   *)
(* KvStoreChain over a key/value store, its RAM forks, the transaction and *)
(* block appliers, the rollback journal and the fork-choice/extender.      *)
(*                                                                         *)
(* The crates db, config, crypto and core::header/blocks are not part of   *)
(* the source tree; they are modelled from the specification (sections 3,  *)
(* 4.A, 4.B, 4.E and 6) and are marked so in the model map.                *)
(***************************************************************************)
EXTENDS Integers, Sequences, FiniteSets, TLC

VARIABLES store, overflow_checks, last, snaps, node

vars == <<store, overflow_checks, last, snaps, node>>

(***************************************************************************)
(* Bounds of the model.                                                    *)
(***************************************************************************)
\* The chain is grown to at most this many blocks (genesis included).
MaxHeight == 3
\* Width of Money in the model: u64 is scaled down to this many bits.
MoneyBits == 4

(***************************************************************************)
(* Option values and small helpers.                                        *)
(***************************************************************************)
None == <<>>
Some(v) == <<v>>

RECURSIVE Pow2(_)
Pow2(n) == IF n = 0 THEN 1 ELSE 2 * Pow2(n - 1)

MoneyMod == Pow2(MoneyBits)
MoneyMax == MoneyMod - 1

\* Up to n elements of a set, in some order.
RECURSIVE Peel(_, _)
Peel(S, n) == IF S = {} \/ n = 0 THEN <<>>
              ELSE LET x == CHOOSE y \in S : TRUE
                   IN <<x>> \o Peel(S \ {x}, n - 1)

\* The elements of a set in some order, taken PeelWidth at a time.
PeelWidth == 16
RECURSIVE SetToSeq(_)
SetToSeq(S) ==
    IF Cardinality(S) <= PeelWidth THEN Peel(S, PeelWidth)
    ELSE CHOOSE all \in {first \o SetToSeq(S \ {first[i] : i \in 1..PeelWidth}) :
                            first \in {Peel(S, PeelWidth)}} : TRUE

(***************************************************************************)
(* Keys of the store: format!("block_{:010}", i) and friends.              *)
(***************************************************************************)
RECURSIVE Zeros(_)
Zeros(n) == IF n <= 0 THEN "" ELSE "0" \o Zeros(n - 1)

\* {:010}: decimal, zero-padded on the left to a width of 10.
Fmt010(i) == LET s == ToString(i) IN Zeros(10 - Len(s)) \o s

\* usize::MAX in decimal: what height - 1 formats to when height is 0 and the
\* build wraps on overflow.
UsizeMaxStr == "18446744073709551615"

HeightKey == "height"
BlockKeyS(s) == "block_" \o s
MerkleKeyS(s) == "merkle_" \o s
RollbackKeyS(s) == "rollback_" \o s
PowerKeyS(s) == "power_" \o s
BlockKey(i) == BlockKeyS(Fmt010(i))
MerkleKey(i) == MerkleKeyS(Fmt010(i))
RollbackKey(i) == RollbackKeyS(Fmt010(i))
PowerKey(i) == PowerKeyS(Fmt010(i))

(***************************************************************************)
(* Addresses.  Address::Treasury | Address::PublicKey(pk).                 *)
(***************************************************************************)
Treasury == <<"Treasury">>
PublicKey(pk) == <<"PublicKey", pk>>

PubKeys == {"pkA", "pkB"}
Addresses == {Treasury} \cup {PublicKey(pk) : pk \in PubKeys}

\* impl Display for Address
AddressDisplay(a) == IF a = Treasury THEN "Treasury" ELSE a[2]

AccountKey(a) == "account_" \o AddressDisplay(a)

(***************************************************************************)
(* The key/value store and its RAM mirror (spec 4.A).                      *)
(*   real store : [kind |-> "kv", map |-> [key -> value]]                  *)
(*   RAM mirror : [kind |-> "mirror", base |-> db, overlay |-> [key ->     *)
(*                Some(value) | None]]                                     *)
(* A write operation is <<"Put", key, value>> or <<"Remove", key>>.        *)
(***************************************************************************)
EmptyMap == [k \in {} |-> 0]

Put(k, v) == <<"Put", k, v>>
Remove(k) == <<"Remove", k>>

KvStore(m) == [kind |-> "kv", map |-> m]

\* RamMirrorKvStore::new
RamMirror(db) == [kind |-> "mirror", base |-> db, overlay |-> EmptyMap]

RECURSIVE Get(_, _)
Get(db, k) ==
    IF db.kind = "kv"
    THEN IF k \in DOMAIN db.map THEN Some(db.map[k]) ELSE None
    ELSE IF k \in DOMAIN db.overlay THEN db.overlay[k] ELSE Get(db.base, k)

ApplyOp(db, op) ==
    IF db.kind = "kv"
    THEN IF op[1] = "Put"
         THEN [db EXCEPT !.map = (op[2] :> op[3]) @@ db.map]
         ELSE [db EXCEPT !.map = [k \in (DOMAIN db.map) \ {op[2]} |-> db.map[k]]]
    ELSE IF op[1] = "Put"
         THEN [db EXCEPT !.overlay = (op[2] :> Some(op[3])) @@ db.overlay]
         ELSE [db EXCEPT !.overlay = (op[2] :> None) @@ db.overlay]

\* update(batch): the operations of the batch in order, as one step.
\* A long batch is applied as its first half, then its second half on the
\* database so obtained.
RECURSIVE Update(_, _)
Update(db, ops) ==
    IF ops = <<>> THEN db
    ELSE IF Len(ops) = 1 THEN ApplyOp(db, ops[1])
    ELSE CHOOSE done \in
             {Update(half, SubSeq(ops, (Len(ops) \div 2) + 1, Len(ops))) :
                 half \in {Update(db, SubSeq(ops, 1, Len(ops) \div 2))}} : TRUE

\* rollback_of(batch): per touched key, a Put of its current value or a Remove
\* when it is absent.
RollbackOf(db, ops) ==
    [i \in 1..Len(ops) |->
        LET k == ops[i][2]
            g == Get(db, k)
        IN IF g # None THEN Put(k, g[1]) ELSE Remove(k)]

\* to_ops(): the overlay as a batch.
ToOps(db) ==
    LET ks == SetToSeq(DOMAIN db.overlay)
    IN [i \in 1..Len(ks) |->
          IF db.overlay[ks[i]] # None
          THEN Put(ks[i], db.overlay[ks[i]][1])
          ELSE Remove(ks[i])]

\* The store a database writes through to: itself, or the store under its
\* mirrors.
RECURSIVE Backing(_)
Backing(db) == IF db.kind = "kv" THEN db ELSE Backing(db.base)

\* The content a database reads as: its map, or what its base reads as with
\* the overlay written over it.
RECURSIVE Content(_)
Content(db) ==
    IF db.kind = "kv" THEN db.map
    ELSE Update(KvStore(Content(db.base)), ToOps(db)).map

(***************************************************************************)
(* Digests (spec 4.B).  A digest is modelled by its pre-image, so distinct *)
(* inputs have distinct digests; the kinds of digest are kept apart by the *)
(* length of the tuple.                                                    *)
(***************************************************************************)
DefaultHash == <<>>
HashTx(tx) == <<tx>>
HashPair(l, r) == <<l, r>>
HashEmpty == <<0, 0, 0>>
HashHeader(h) == <<h.number, h.parent_hash, h.block_root, h.proof_of_work>>
\* A digest that is the digest of nothing in the model.
ForeignHash == <<0, 0, 0, 0, 0>>

RECURSIVE MerkleLevel(_)
MerkleLevel(hs) ==
    IF Len(hs) = 0 THEN <<>>
    ELSE IF Len(hs) = 1 THEN <<HashPair(hs[1], hs[1])>>
    ELSE <<HashPair(hs[1], hs[2])>> \o MerkleLevel(SubSeq(hs, 3, Len(hs)))

RECURSIVE MerkleReduce(_)
MerkleReduce(hs) == IF Len(hs) = 1 THEN hs[1] ELSE MerkleReduce(MerkleLevel(hs))

\* block.merkle_tree().root()
MerkleRoot(body) ==
    IF body = <<>> THEN HashEmpty
    ELSE MerkleReduce([i \in 1..Len(body) |-> HashTx(body[i])])

\* block.merkle_tree(): the tree is kept as its leaves and its root.
MerkleTree(body) ==
    [leaves |-> [i \in 1..Len(body) |-> HashTx(body[i])], root |-> MerkleRoot(body)]

(***************************************************************************)
(* Transactions (core::Transaction) and signatures.                        *)
(*   tx  : [src, nonce, data, fee, sig]                                    *)
(*   data: [kind, dst, amount]; kind "RegularSend" or another variant      *)
(*   sig : <<"Unsigned">> or <<"Signed", [by |-> pk, over |-> bytes]>>     *)
(***************************************************************************)
Unsigned == <<"Unsigned">>
Signed(s) == <<"Signed", s>>

RegularSend(dst, amount) == [kind |-> "RegularSend", dst |-> dst, amount |-> amount]
RegisterValidator(amount) == [kind |-> "RegisterValidator", dst |-> Treasury, amount |-> amount]

\* bincode::serialize(&unsigned): the transaction with sig = Unsigned.
UnsignedBytes(tx) == [tx EXCEPT !.sig = Unsigned]

\* crypto::EdDSA::sign / verify: a signature names its signer and the bytes it
\* was made over.
Sign(pk, bytes) == [by |-> pk, over |-> bytes]
Verify(pk, bytes, sig) == sig.by = pk /\ sig.over = bytes

\* Transaction::verify_signature
VerifySignature(tx) ==
    IF tx.src = Treasury THEN TRUE
    ELSE IF tx.sig = Unsigned THEN FALSE
    ELSE Verify(tx.src[2], UnsignedBytes(tx), tx.sig[2])

(***************************************************************************)
(* Headers, proof of work and the genesis block.                           *)
(***************************************************************************)
TOTAL_SUPPLY == 6
POW_BASE_KEY == <<"BAZUKA BASE KEY">>
POW_KEY_CHANGE_DELAY == 64
POW_KEY_CHANGE_INTERVAL == 128
GenesisTarget == 1

ProofOfWork(timestamp, target, nonce) ==
    [timestamp |-> timestamp, target |-> target, nonce |-> nonce]

Header(number, parent_hash, block_root, pow) ==
    [number |-> number, parent_hash |-> parent_hash, block_root |-> block_root,
     proof_of_work |-> pow]

\* Header::default()
DefaultHeader == Header(0, DefaultHash, DefaultHash, ProofOfWork(0, 0, 0))

Block(header, body) == [header |-> header, body |-> body]

\* The number of leading zeros of the header's proof-of-work hash under a key:
\* a function of the header's nonce and of the key, which is the base key or
\* the hash of a header.
KeySalt(key) ==
    IF key = POW_BASE_KEY THEN 0 ELSE key[1] + key[4].nonce
PowLeadingZeros(h, key) == (h.proof_of_work.nonce + KeySalt(key)) % 3

\* Header::meets_target
MeetsTarget(h, key) == PowLeadingZeros(h, key) >= h.proof_of_work.target

\* Header::power
Power(h, key) == Pow2(PowLeadingZeros(h, key))

\* config::genesis::get_genesis_block()
GenesisBlock ==
    Block(Header(0, DefaultHash, MerkleRoot(<<>>), ProofOfWork(0, GenesisTarget, 1)),
          <<>>)

(***************************************************************************)
(* Results.  err is "ok", the name of a BlockchainError, or "panic" when    *)
(* the call aborts the process; db is the database the call was made on,   *)
(* as the call leaves it.                                                  *)
(***************************************************************************)
Ok(db) == [err |-> "ok", db |-> db]
Fail(e, db) == [err |-> e, db |-> db]
OkVal(v) == [err |-> "ok", val |-> v]
FailVal(e) == [err |-> e, val |-> None]

\* u64 arithmetic: the exact value when it fits; otherwise the build either
\* aborts (overflow checks) or wraps.
Fits(x) == 0 <= x /\ x <= MoneyMax
Wrap(x) == x % MoneyMod

(***************************************************************************)
(* Queries of KvStoreChain.                                                *)
(***************************************************************************)
\* get_height
GetHeight(db) ==
    LET g == Get(db, HeightKey) IN IF g # None THEN g[1] ELSE 0

\* get_block
GetBlock(db, index) ==
    IF index >= GetHeight(db) THEN FailVal("BlockNotFound")
    ELSE LET g == Get(db, BlockKey(index))
         IN IF g # None THEN OkVal(g[1]) ELSE FailVal("Inconsistency")

\* get_account
GetAccount(db, addr) ==
    LET g == Get(db, AccountKey(addr))
    IN IF g # None THEN g[1]
       ELSE [balance |-> IF addr = Treasury THEN TOTAL_SUPPLY ELSE 0, nonce |-> 0]

\* get_power
GetPower(db) ==
    LET height == GetHeight(db)
    IN IF height = 0 THEN OkVal(0)
       ELSE LET g == Get(db, PowerKey(height - 1))
            IN IF g # None THEN OkVal(g[1]) ELSE FailVal("Inconsistency")

\* pow_key
PowKey(db, index) ==
    IF index < 64 THEN OkVal(POW_BASE_KEY)
    ELSE LET reference == ((index - POW_KEY_CHANGE_DELAY) \div POW_KEY_CHANGE_INTERVAL)
                              * POW_KEY_CHANGE_INTERVAL
             b == GetBlock(db, reference)
         IN IF b.err # "ok" THEN FailVal(b.err) ELSE OkVal(HashHeader(b.val.header))

\* Mutant: the loop does not stop at the height.
RECURSIVE GetBlocksFromNoClip(_, _, _, _)
GetBlocksFromNoClip(db, i, stop, height) ==
    IF i >= stop THEN [err |-> "ok", val |-> <<>>]
    ELSE LET g == Get(db, BlockKey(i))
         IN IF g = None THEN [err |-> "Inconsistency", val |-> None]
            ELSE LET rest == GetBlocksFromNoClip(db, i + 1, stop, height)
                 IN IF rest.err # "ok" THEN rest
                    ELSE [err |-> "ok", val |-> <<g[1]>> \o rest.val]

\* get_blocks
RECURSIVE GetBlocksFrom(_, _, _, _)
GetBlocksFrom(db, i, stop, height) ==
    IF i >= stop \/ i >= height THEN OkVal(<<>>)
    ELSE LET g == Get(db, BlockKey(i))
         IN IF g = None THEN FailVal("Inconsistency")
            ELSE LET rest == GetBlocksFrom(db, i + 1, stop, height)
                 IN IF rest.err # "ok" THEN rest ELSE OkVal(<<g[1]>> \o rest.val)

\* until is None or Some(n)
GetBlocks(db, since, until) ==
    LET height == GetHeight(db)
    IN GetBlocksFrom(db, since, IF until = None THEN height ELSE until[1], height)

\* get_headers
GetHeaders(db, since, until) ==
    LET r == GetBlocks(db, since, until)
    IN IF r.err # "ok" THEN r
       ELSE OkVal([i \in 1..Len(r.val) |-> r.val[i].header])

(***************************************************************************)
(* apply_tx                                                                *)
(***************************************************************************)
\* Mutant: a nonce above the account's is accepted, whatever the gap.
NonceOkAtLeast(tx, acc_src) == tx.nonce >= acc_src.nonce + 1

\* tx.nonce != acc_src.nonce + 1 is InvalidTransactionNonce.
NonceOk(tx, acc_src) == tx.nonce = acc_src.nonce + 1

\* if *dst != tx.src { *amount } else { 0 } + tx.fee
DebitOf(tx) == (IF tx.data.dst # tx.src THEN tx.data.amount ELSE 0) + tx.fee

\* Mutant: the source account is written back with the nonce it had.
SrcAfterKeepsNonce(acc_src, debit) ==
    [balance |-> Wrap(acc_src.balance - Wrap(debit)), nonce |-> acc_src.nonce]

\* acc_src.balance -= debit; acc_src.nonce += 1
SrcAfter(acc_src, debit) ==
    [balance |-> Wrap(acc_src.balance - Wrap(debit)), nonce |-> acc_src.nonce + 1]

\* Mutant: the nonce of the destination is advanced as well.
DstAfterBumpsNonce(acc_dst, amount) ==
    [balance |-> Wrap(acc_dst.balance + amount), nonce |-> acc_dst.nonce + 1]

\* acc_dst.balance += amount
DstAfter(acc_dst, amount) ==
    [balance |-> Wrap(acc_dst.balance + amount), nonce |-> acc_dst.nonce]

ApplyTx(db, tx) ==
    IF ~VerifySignature(tx) THEN Fail("SignatureError", db)
    ELSE IF tx.data.kind # "RegularSend" THEN Fail("panic", db)
    ELSE
      LET dst == tx.data.dst
          amount == tx.data.amount
          acc_src == GetAccount(db, tx.src)
          need == amount + tx.fee
          debit == DebitOf(tx)
          acc_dst == GetAccount(db, dst)
      IN
      IF ~NonceOk(tx, acc_src) THEN Fail("InvalidTransactionNonce", db)
      ELSE IF ~Fits(need) /\ overflow_checks THEN Fail("panic", db)
      ELSE IF acc_src.balance < Wrap(need) THEN Fail("BalanceInsufficient", db)
      ELSE IF ~Fits(acc_src.balance - Wrap(debit)) /\ overflow_checks
           THEN Fail("panic", db)
      ELSE IF dst # tx.src /\ ~Fits(acc_dst.balance + amount) /\ overflow_checks
           THEN Fail("panic", db)
      ELSE
        LET src_put == Put(AccountKey(tx.src), SrcAfter(acc_src, debit))
            dst_put == Put(AccountKey(dst), DstAfter(acc_dst, amount))
            ops == IF dst # tx.src THEN <<src_put, dst_put>> ELSE <<src_put>>
        IN Ok(Update(db, ops))

(***************************************************************************)
(* fork_on_ram, rollback_block                                             *)
(***************************************************************************)
ForkOnRam(db) == RamMirror(db)

\* height - 1 on usize, formatted {:010}.  At height 0 the subtraction
\* overflows: the call aborts under overflow checks, and otherwise the index
\* wraps to usize::MAX.
PrevIndexStr(height) == IF height > 0 THEN Fmt010(height - 1) ELSE UsizeMaxStr

\* Mutant: the block itself is not removed.
RollbackBlockKeepsBlock(db) ==
    LET height == GetHeight(db)
        idx == PrevIndexStr(height)
        g == Get(db, RollbackKeyS(idx))
    IN IF height = 0 /\ overflow_checks THEN Fail("panic", db)
       ELSE IF g = None THEN Fail("Inconsistency", db)
       ELSE Ok(Update(db, g[1] \o <<Remove(MerkleKeyS(idx)),
                                    Remove(RollbackKeyS(idx))>>))

RollbackBlock(db) ==
    LET height == GetHeight(db)
        idx == PrevIndexStr(height)
        g == Get(db, RollbackKeyS(idx))
    IN IF height = 0 /\ overflow_checks THEN Fail("panic", db)
       ELSE IF g = None THEN Fail("Inconsistency", db)
       ELSE Ok(Update(db, g[1] \o <<Remove(BlockKeyS(idx)),
                                    Remove(MerkleKeyS(idx)),
                                    Remove(RollbackKeyS(idx))>>))

(***************************************************************************)
(* apply_block                                                             *)
(***************************************************************************)
\* for tx in block.body.iter() { fork.apply_tx(tx)?; }
RECURSIVE ApplyTxs(_, _)
RECURSIVE ApplyTxsRest(_, _)
ApplyTxsRest(r, rest) == IF r.err # "ok" THEN r ELSE ApplyTxs(r.db, rest)
ApplyTxs(db, txs) ==
    IF txs = <<>> THEN Ok(db) ELSE ApplyTxsRest(ApplyTx(db, Head(txs)), Tail(txs))

\* What the execution of a body on a fork gives: the error of the first failing
\* transaction, the database under the fork, and the fork's pending operations.
ForkResult(r) == [err |-> r.err, db |-> r.db.base, ops |-> ToOps(r.db)]

\* Mutant: the body is applied to the database itself, not to a fork of it.
ApplyBodyInPlace(db, body) ==
    LET r == ApplyTxs(db, body)
    IN [err |-> r.err, db |-> r.db, ops |-> <<>>]

\* let mut fork = self.fork_on_ram(); the body applied on it.
ApplyBody(db, body) == ForkResult(ApplyTxs(ForkOnRam(db), body))

\* Mutant: the parent hash is not checked.
HeaderChecksNoParent(block, draft, pow_key, curr_height, last_block) ==
    IF ~draft /\ ~MeetsTarget(block.header, pow_key) THEN "DifficultyTargetUnmet"
    ELSE IF block.header.number # curr_height THEN "InvalidBlockNumber"
    ELSE IF block.header.block_root # MerkleRoot(block.body) THEN "InvalidMerkleRoot"
    ELSE "ok"

\* Mutant: the proof of work is never checked.
HeaderChecksNoPow(block, draft, pow_key, curr_height, last_block) ==
    IF block.header.number # curr_height THEN "InvalidBlockNumber"
    ELSE IF block.header.parent_hash # HashHeader(last_block.header)
         THEN "InvalidParentHash"
    ELSE IF block.header.block_root # MerkleRoot(block.body) THEN "InvalidMerkleRoot"
    ELSE "ok"

\* Mutant: the Merkle root is checked before the number and the parent hash.
HeaderChecksRootFirst(block, draft, pow_key, curr_height, last_block) ==
    IF ~draft /\ ~MeetsTarget(block.header, pow_key) THEN "DifficultyTargetUnmet"
    ELSE IF block.header.block_root # MerkleRoot(block.body) THEN "InvalidMerkleRoot"
    ELSE IF block.header.number # curr_height THEN "InvalidBlockNumber"
    ELSE IF block.header.parent_hash # HashHeader(last_block.header)
         THEN "InvalidParentHash"
    ELSE "ok"

\* The header checks of apply_block for curr_height > 0, in their order.
HeaderChecks(block, draft, pow_key, curr_height, last_block) ==
    IF ~draft /\ ~MeetsTarget(block.header, pow_key) THEN "DifficultyTargetUnmet"
    ELSE IF block.header.number # curr_height THEN "InvalidBlockNumber"
    ELSE IF block.header.parent_hash # HashHeader(last_block.header)
         THEN "InvalidParentHash"
    ELSE IF block.header.block_root # MerkleRoot(block.body) THEN "InvalidMerkleRoot"
    ELSE "ok"

\* if curr_height > 0 { let last_block = self.get_block(curr_height - 1)?; ... }
BlockCheck(db, block, draft, pow_key, curr_height) ==
    IF curr_height > 0
    THEN LET last_block == GetBlock(db, curr_height - 1)
         IN IF last_block.err # "ok" THEN last_block.err
            ELSE HeaderChecks(block, draft, pow_key, curr_height, last_block.val)
    ELSE "ok"

\* Mutant: the journal entry is computed before the height and the power are
\* appended to the batch.
BlockChangesEarlyJournal(db, block, ops, curr_height, pow_key, power) ==
    ops \o <<Put(HeightKey, curr_height + 1),
             Put(PowerKey(block.header.number), Power(block.header, pow_key) + power),
             Put(RollbackKey(block.header.number), RollbackOf(db, ops)),
             Put(BlockKey(block.header.number), block),
             Put(MerkleKey(block.header.number), MerkleTree(block.body))>>

\* Mutant: the power of the block is stored, not the cumulative power.
BlockChangesOwnPower(db, block, ops, curr_height, pow_key, power) ==
    LET c2 == ops \o <<Put(HeightKey, curr_height + 1),
                       Put(PowerKey(block.header.number), Power(block.header, pow_key))>>
    IN c2 \o <<Put(RollbackKey(block.header.number), RollbackOf(db, c2)),
               Put(BlockKey(block.header.number), block),
               Put(MerkleKey(block.header.number), MerkleTree(block.body))>>

\* The batch apply_block commits: the body's operations, the height, the
\* cumulative power, the journal entry (the inverse of the batch so far), the
\* block and its Merkle tree.
BlockChanges(db, block, ops, curr_height, pow_key, power) ==
    LET c1 == ops \o <<Put(HeightKey, curr_height + 1)>>
        c2 == c1 \o <<Put(PowerKey(block.header.number),
                          Power(block.header, pow_key) + power)>>
        c3 == c2 \o <<Put(RollbackKey(block.header.number), RollbackOf(db, c2))>>
    IN c3 \o <<Put(BlockKey(block.header.number), block),
               Put(MerkleKey(block.header.number), MerkleTree(block.body))>>

\* apply_block from self.get_power() on: the batch is built and committed.
ApplyBlockCommit(db, block, ops, curr_height, pow_key, power) ==
    IF power.err # "ok" THEN Fail(power.err, db)
    ELSE Ok(Update(db, BlockChanges(db, block, ops, curr_height, pow_key, power.val)))

\* apply_block after the body was executed on the fork.
ApplyBlockBody(block, curr_height, pow_key, body) ==
    IF body.err # "ok" THEN Fail(body.err, body.db)
    ELSE ApplyBlockCommit(body.db, block, body.ops, curr_height, pow_key,
                          GetPower(body.db))

\* apply_block after the header checks.
ApplyBlockChecked(db, block, curr_height, pow_key, check) ==
    IF check # "ok" THEN Fail(check, db)
    ELSE ApplyBlockBody(block, curr_height, pow_key, ApplyBody(db, block.body))

\* apply_block after pow_key.
ApplyBlockKeyed(db, block, draft, curr_height, pow_key) ==
    IF pow_key.err # "ok" THEN Fail(pow_key.err, db)
    ELSE ApplyBlockChecked(db, block, curr_height, pow_key.val,
                           BlockCheck(db, block, draft, pow_key.val, curr_height))

\* Mutant: the key is read from the store under the forks, the chain that an
\* extend replaces.
ApplyBlockReplacedKey(db, block, draft) ==
    ApplyBlockKeyed(db, block, draft, GetHeight(db),
                    PowKey(Backing(db), block.header.number))

ApplyBlock(db, block, draft) ==
    ApplyBlockKeyed(db, block, draft, GetHeight(db), PowKey(db, block.header.number))

(***************************************************************************)
(* will_extend, extend                                                     *)
(***************************************************************************)
RECURSIVE WillExtendLoop(_, _, _, _)
WillExtendLoop(db, headers, last_header, new_power) ==
    IF headers = <<>> THEN OkVal(new_power)
    ELSE LET h == Head(headers)
             pow_key == PowKey(db, h.number)
         IN IF pow_key.err # "ok" THEN FailVal(pow_key.err)
            ELSE IF ~MeetsTarget(h, pow_key.val) THEN FailVal("DifficultyTargetUnmet")
            ELSE IF h.number # last_header.number + 1 THEN FailVal("InvalidBlockNumber")
            ELSE IF h.parent_hash # HashHeader(last_header)
                 THEN FailVal("InvalidParentHash")
            ELSE WillExtendLoop(db, Tail(headers), h,
                                new_power + Power(h, pow_key.val))

\* Ok(new_power > current_power)
WillExtendAnswer(r, current_power) ==
    IF r.err # "ok" THEN r ELSE OkVal(r.val > current_power)

WillExtend(db, from, headers) ==
    LET current_power == GetPower(db)
        base == Get(db, PowerKey(from - 1))
        last_block == GetBlock(db, from - 1)
    IN IF current_power.err # "ok" THEN FailVal(current_power.err)
       ELSE IF from = 0 THEN FailVal("ExtendFromGenesis")
       ELSE IF from > GetHeight(db) THEN FailVal("ExtendFromFuture")
       ELSE IF base = None THEN FailVal("Inconsistency")
       ELSE IF last_block.err # "ok" THEN FailVal(last_block.err)
       ELSE WillExtendAnswer(
                WillExtendLoop(db, headers, last_block.val.header, base[1]),
                current_power.val)

\* while forked.get_height()? > from { forked.rollback_block()?; }
RECURSIVE RollbackTo(_, _)
RECURSIVE RollbackToRest(_, _)
RollbackToRest(r, from) == IF r.err # "ok" THEN r ELSE RollbackTo(r.db, from)
RollbackTo(db, from) ==
    IF GetHeight(db) > from THEN RollbackToRest(RollbackBlock(db), from) ELSE Ok(db)

\* for block in blocks.iter() { forked.apply_block(block, false)?; }
RECURSIVE ApplyBlocks(_, _)
RECURSIVE ApplyBlocksRest(_, _)
ApplyBlocksRest(r, rest) == IF r.err # "ok" THEN r ELSE ApplyBlocks(r.db, rest)
ApplyBlocks(db, blocks) ==
    IF blocks = <<>> THEN Ok(db)
    ELSE IF Len(blocks) = 1 THEN ApplyBlock(db, blocks[1], FALSE)
    ELSE CHOOSE done \in
             {ApplyBlocksRest(first,
                              SubSeq(blocks, (Len(blocks) \div 2) + 1, Len(blocks))) :
                 first \in {ApplyBlocks(db, SubSeq(blocks, 1, Len(blocks) \div 2))}} :
             TRUE

\* extend after the rollbacks on the fork: the new blocks.
ExtendApply(r, blocks) == IF r.err # "ok" THEN r ELSE ApplyBlocks(r.db, blocks)

\* The rollbacks and the new blocks on the fork.
ExtendOnFork(forked, from, blocks) == ExtendApply(RollbackTo(forked, from), blocks)

\* Mutant: the fork is committed whether or not it failed.
ExtendCommitAlways(r) == [err |-> r.err, db |-> Update(r.db.base, ToOps(r.db))]

\* Mutant: only the Put operations of the fork are committed.
ExtendCommitPutsOnly(r) ==
    IF r.err # "ok" THEN Fail(r.err, r.db.base)
    ELSE Ok(Update(r.db.base, SelectSeq(ToOps(r.db), LAMBDA op : op[1] = "Put")))

\* let ops = forked.database.to_ops(); self.database.update(&ops)?;
ExtendCommit(r) ==
    IF r.err # "ok" THEN Fail(r.err, r.db.base)
    ELSE Ok(Update(r.db.base, ToOps(r.db)))

\* Mutant: from == height is refused as well.
ExtendRefusesTip(db, from, blocks) ==
    IF from = 0 THEN Fail("ExtendFromGenesis", db)
    ELSE IF from >= GetHeight(db) THEN Fail("ExtendFromFuture", db)
    ELSE ExtendCommit(ExtendOnFork(ForkOnRam(db), from, blocks))

Extend(db, from, blocks) ==
    IF from = 0 THEN Fail("ExtendFromGenesis", db)
    ELSE IF from > GetHeight(db) THEN Fail("ExtendFromFuture", db)
    ELSE ExtendCommit(ExtendOnFork(ForkOnRam(db), from, blocks))

(***************************************************************************)
(* select_transactions, draft_block                                        *)
(***************************************************************************)
\* sorted.sort_by(|t1, t2| t1.nonce.cmp(&t2.nonce)): a stable sort.
RECURSIVE InsertByNonce(_, _)
InsertByNonce(sorted, tx) ==
    IF sorted = <<>> THEN <<tx>>
    ELSE IF Head(sorted).nonce <= tx.nonce
         THEN <<Head(sorted)>> \o InsertByNonce(Tail(sorted), tx)
         ELSE <<tx>> \o sorted

RECURSIVE SortByNonce(_)
SortByNonce(txs) ==
    IF txs = <<>> THEN <<>>
    ELSE InsertByNonce(SortByNonce(SubSeq(txs, 1, Len(txs) - 1)), txs[Len(txs)])

\* for tx in sorted { if fork.apply_tx(&tx).is_ok() { result.push(tx); } }
RECURSIVE SelectLoop(_, _, _)
RECURSIVE SelectStep(_, _, _, _)
SelectStep(r, tx, rest, result) ==
    IF r.err = "panic" THEN [err |-> "panic", val |-> result, db |-> r.db]
    ELSE IF r.err = "ok" THEN SelectLoop(r.db, rest, Append(result, tx))
    ELSE SelectLoop(r.db, rest, result)
SelectLoop(fork, txs, result) ==
    IF txs = <<>> THEN [err |-> "ok", val |-> result, db |-> fork]
    ELSE SelectStep(ApplyTx(fork, Head(txs)), Head(txs), Tail(txs), result)

\* The selection, and the database under the fork it was made on.
SelectResult(r) == [err |-> r.err, val |-> r.val, db |-> r.db.base]

\* Mutant: the transactions are tried on the database itself.
SelectTransactionsInPlace(db, txs) ==
    LET r == SelectLoop(db, SortByNonce(txs), <<>>)
    IN [err |-> r.err, val |-> r.val, db |-> r.db]

SelectTransactions(db, txs) ==
    SelectResult(SelectLoop(ForkOnRam(db), SortByNonce(txs), <<>>))

\* self.fork_on_ram().apply_block(&blk, true)?; Ok(blk)
DraftChecked(blk, chk) ==
    [err |-> chk.err, val |-> IF chk.err = "ok" THEN Some(blk) ELSE None,
     db |-> chk.db.base]

\* Mutant: the root is taken before the body is filled in.
DraftCandidateEarlyRoot(height, last_block, body) ==
    Block(Header(height, HashHeader(last_block.header), MerkleRoot(<<>>),
                 ProofOfWork(0, last_block.header.proof_of_work.target, 0)),
          body)

\* The candidate block on top of last_block with the selected body.
DraftCandidate(height, last_block, body) ==
    Block(Header(height, HashHeader(last_block.header), MerkleRoot(body),
                 ProofOfWork(0, last_block.header.proof_of_work.target, 0)),
          body)

\* draft_block after select_transactions.
DraftSelected(height, last_block, sel) ==
    IF sel.err # "ok" THEN [err |-> sel.err, val |-> None, db |-> sel.db]
    ELSE DraftChecked(DraftCandidate(height, last_block, sel.val),
                      ApplyBlock(ForkOnRam(sel.db),
                                 DraftCandidate(height, last_block, sel.val), TRUE))

\* draft_block after get_block(height - 1).
DraftOnLast(db, mempool, height, last_block) ==
    IF last_block.err # "ok" THEN [err |-> last_block.err, val |-> None, db |-> db]
    ELSE DraftSelected(height, last_block.val, SelectTransactions(db, mempool))

\* At height 0, height - 1 overflows: the call aborts under overflow checks;
\* otherwise the index wraps to usize::MAX and get_block finds no block.
DraftBlock(db, mempool) ==
    IF GetHeight(db) = 0
    THEN [err |-> IF overflow_checks THEN "panic" ELSE "BlockNotFound",
          val |-> None, db |-> db]
    ELSE DraftOnLast(db, mempool, GetHeight(db), GetBlock(db, GetHeight(db) - 1))

(***************************************************************************)
(* KvStoreChain::new                                                       *)
(***************************************************************************)
\* Mutant: the genesis block is applied whatever the height.
NewAlwaysGenesis(db) == ApplyBlock(db, GenesisBlock, FALSE)

New(db) ==
    IF GetHeight(db) = 0 THEN ApplyBlock(db, GenesisBlock, FALSE) ELSE Ok(db)

(***************************************************************************)
(* The inputs the operations are exercised on.                             *)
(***************************************************************************)
AddrA == PublicKey("pkA")
AddrB == PublicKey("pkB")

Tx(src, nonce, data, fee) ==
    [src |-> src, nonce |-> nonce, data |-> data, fee |-> fee, sig |-> Unsigned]

\* A transaction signed by the key of its source.
SignedTx(src, nonce, data, fee) ==
    LET tx == Tx(src, nonce, data, fee)
    IN [tx EXCEPT !.sig = Signed(Sign(src[2], UnsignedBytes(tx)))]

TxT1 == Tx(Treasury, 1, RegularSend(AddrA, 3), 1)
TxT2 == Tx(Treasury, 2, RegularSend(AddrB, 1), 0)
TxA1 == SignedTx(AddrA, 1, RegularSend(AddrB, 1), 1)
TxASelf == SignedTx(AddrA, 1, RegularSend(AddrA, 1), 1)
TxUnsigned == Tx(AddrA, 1, RegularSend(AddrB, 1), 0)
TxPoor == SignedTx(AddrB, 1, RegularSend(AddrA, 2), 0)
TxOther == Tx(Treasury, 1, RegisterValidator(1), 0)
TxBig == Tx(Treasury, 1, RegularSend(AddrB, MoneyMax), 1)

\* A nonce of 0, and a nonce two above a fresh account's.
TxT0 == Tx(Treasury, 0, RegularSend(AddrA, 1), 0)
TxGap == SignedTx(AddrA, 2, RegularSend(AddrB, 1), 0)
\* More than the source holds, without overflow.
TxOver == Tx(Treasury, 1, RegularSend(AddrA, TOTAL_SUPPLY), 1)

(***************************************************************************)
(* The wallet (wallet/mod.rs).                                             *)
(***************************************************************************)
\* crypto::EdDSA::generate_keys: the key pair of a seed; a signature made
\* with sk verifies under the pk of the same seed.
GenerateKeys(seed) == [pk |-> seed, sk |-> seed]

\* Wallet::new
WalletNew(seed) == [seed |-> seed, nonce |-> 0]

\* Wallet::get_address
GetAddress(wallet) == PublicKey(GenerateKeys(wallet.seed).pk)

\* Wallet::create_transaction
CreateTransaction(wallet, dst, amount, fee) ==
    LET tx == [src |-> GetAddress(wallet), data |-> RegularSend(dst, amount),
               nonce |-> wallet.nonce, fee |-> fee, sig |-> Unsigned]
    IN [tx EXCEPT !.sig = Signed(Sign(GenerateKeys(wallet.seed).sk, tx))]

\* The transactions of a new wallet of AddrA's seed.
WalletTxs ==
    {CreateTransaction(WalletNew("pkA"), AddrB, amount, fee) :
        amount \in {1, 2}, fee \in {0, 1}}

\* The transactions apply_tx is tried on.
Txs == {TxT1, TxT2, TxA1, TxASelf, TxUnsigned, TxPoor, TxOther, TxBig, TxT0,
        TxGap, TxOver} \cup WalletTxs

Bodies ==
    { <<>>, <<TxT1>>, <<TxT1, TxA1>>, <<TxA1>>, <<TxT2>>, <<TxT1, TxT1>>,
      <<TxASelf>>, <<TxUnsigned>>, <<TxPoor>>, <<TxOther>>, <<TxBig>> }

ExtendBodies == { <<>>, <<TxT1>>, <<TxA1>>, <<TxT1, TxT1>> }

Mempools ==
    { <<>>, <<TxT2, TxT1>>, <<TxA1, TxT1>>, <<TxUnsigned, TxPoor, TxT1>>,
      <<TxT1, TxOther>>, <<TxBig, TxT1>> }

PowNonces == {0, 1, 2}
Faults == {"number", "number64", "number200", "parent", "root"}
\* Several fields wrong at once.
MultiFaults == {"number+parent", "number+root", "parent+root", "number+parent+root"}

\* A block offered on top of a parent header; fault names the field of its
\* header that is wrong, if any.
MkBlock(parent, body, nonce, fault) ==
    Block(Header(IF fault \in {"number", "number+parent", "number+root",
                              "number+parent+root"}
                 THEN parent.number + 2
                 ELSE IF fault = "number64" THEN 64
                 ELSE IF fault = "number200" THEN 200
                 ELSE parent.number + 1,
                 IF fault \in {"parent", "number+parent", "parent+root",
                              "number+parent+root"}
                 THEN ForeignHash ELSE HashHeader(parent),
                 IF fault \in {"root", "number+root", "parent+root",
                              "number+parent+root"}
                 THEN ForeignHash ELSE MerkleRoot(body),
                 ProofOfWork(0, GenesisTarget, nonce)),
          body)

\* The blocks offered on top of a parent header.
BlocksOn(parent) ==
    {MkBlock(parent, body, n, "none") : body \in Bodies, n \in PowNonces}
    \cup {MkBlock(parent, <<TxT1>>, 1, f) : f \in Faults}
    \cup {MkBlock(parent, <<TxT1>>, n, f) : n \in {0, 1}, f \in MultiFaults}
    \cup {MkBlock(parent, <<TxT1>>, 0, f) : f \in {"number", "parent", "root"}}

ExtendBlocksOn(parent) ==
    {MkBlock(parent, body, n, "none") : body \in ExtendBodies, n \in {1, 2}}
    \cup {MkBlock(parent, <<>>, 0, "none")}
    \cup {MkBlock(parent, <<>>, 1, f) : f \in {"number", "parent", "root"}}

\* The block lists offered to extend on top of a parent header: none, one or
\* two blocks, the second on top of the first.
BlockListsOn(parent) ==
    {<<>>}
    \cup {<<b>> : b \in ExtendBlocksOn(parent)}
    \cup UNION {{<<b1, b2>> : b2 \in ExtendBlocksOn(b1.header)} :
                   b1 \in {MkBlock(parent, body, n, "none") :
                              body \in ExtendBodies, n \in {1, 2}}}

HeadersOf(blocks) == [i \in 1..Len(blocks) |-> blocks[i].header]

(***************************************************************************)
(* The state machine.                                                      *)
(*   store            the map of the real key/value store                  *)
(*   overflow_checks  whether the build aborts on integer overflow         *)
(*   last             the call that has just returned and what it          *)
(*                    returned; "idle" between calls                       *)
(*   snaps            the stores before each of the blocks applied by the  *)
(*                    latest run of apply_block calls, oldest first        *)
(*   node             the node around the chain: where its heartbeat task  *)
(*                    is (hb), the height that task read when it last took *)
(*                    the lock (height), the block given to the miner      *)
(*                    (miner) and the block of the puzzle last posted to   *)
(*                    the miner (posted)                                   *)
(***************************************************************************)
db0 == KvStore(store)

\* A node whose heartbeat is about to start and whose miner has no block.
NodeStart == [hb |-> "start", height |-> 0, miner |-> None, posted |-> None]

Idle ==
    [op |-> "idle", err |-> "ok", pre |-> EmptyMap, from |-> 0, blocks |-> <<>>,
     draft |-> FALSE, will |-> "none", snap |-> None, tx |-> None,
     post |-> EmptyMap, mempool |-> <<>>, key |-> None]

\* The record of a call: its name and result, the store before it (pre), its
\* arguments, what will_extend answered on the same store and arguments
\* (will), and for a rollback_block the snapshot taken before the block it
\* undid was applied (snap).  For an apply_tx, tx is the transaction and post
\* the content of the database it was applied on, after the call.  For a
\* draft_block, mempool is the mempool it was given.  For a pow_key, from is
\* the index and key the key returned.
Call(op, err, from, blocks, draft, will) ==
    [op |-> op, err |-> err, pre |-> store, from |-> from, blocks |-> blocks,
     draft |-> draft, will |-> will,
     snap |-> IF op = "rollback_block" /\ err = "ok" /\ snaps # <<>>
              THEN Some(snaps[Len(snaps)]) ELSE None,
     tx |-> None, post |-> EmptyMap, mempool |-> <<>>, key |-> None]

Init ==
    /\ overflow_checks \in BOOLEAN
    /\ store = New(KvStore(EmptyMap)).db.map
    /\ last = Idle
    /\ snaps = <<>>
    /\ node = NodeStart

\* The caller takes the result; the next call can be made.
Return ==
    /\ last.op # "idle"
    /\ last' = Idle
    /\ UNCHANGED <<store, overflow_checks, snaps, node>>

\* The tip of the chain.
TipHeader == GetBlock(db0, GetHeight(db0) - 1).val.header

\* What will_extend answers: "true", "false" or the error.
WillText(w) == IF w.err # "ok" THEN w.err ELSE IF w.val THEN "true" ELSE "false"
WillAnswer(db, from, headers) == WillText(WillExtend(db, from, headers))

\* A call on the real store returns r.
Returns(op, r, from, blocks, draft, will) ==
    /\ store' = r.db.map
    /\ last' = Call(op, r.err, from, blocks, draft, will)
    /\ snaps' = IF r.err # "ok" THEN snaps
                ELSE IF op = "apply_block" THEN Append(snaps, store)
                ELSE IF op = "rollback_block"
                     THEN IF snaps = <<>> THEN <<>>
                          ELSE SubSeq(snaps, 1, Len(snaps) - 1)
                ELSE IF op \in {"new", "extend"} THEN <<>>
                ELSE snaps
    /\ UNCHANGED <<overflow_checks, node>>

NewAct ==
    /\ last.op = "idle"
    /\ Returns("new", New(db0), 0, <<>>, FALSE, "none")

\* apply_block on the store itself.  apply_block is private: on an empty
\* store its only caller is new, with the genesis block (NewAct), so this
\* action starts from a chain that has its genesis block.
ApplyBlockAct ==
    /\ last.op = "idle"
    /\ GetHeight(db0) >= 1
    /\ GetHeight(db0) < MaxHeight
    /\ \E b \in BlocksOn(TipHeader), d \in BOOLEAN :
         Returns("apply_block", ApplyBlock(db0, b, d), 0, <<b>>, d, "none")

\* apply_tx on a fork of the store, as apply_block and select_transactions
\* call it: the store itself is not written.
ApplyTxReturns(tx, r) ==
    /\ last' = [Call("apply_tx", r.err, 0, <<>>, FALSE, "none")
                 EXCEPT !.tx = Some(tx), !.post = Content(r.db)]
    /\ UNCHANGED <<store, overflow_checks, snaps, node>>

ApplyTxAct ==
    /\ last.op = "idle"
    /\ \E tx \in Txs : ApplyTxReturns(tx, ApplyTx(ForkOnRam(db0), tx))

RollbackBlockAct ==
    /\ last.op = "idle"
    /\ Returns("rollback_block", RollbackBlock(db0), 0, <<>>, FALSE, "none")

ExtendAct ==
    /\ last.op = "idle"
    /\ GetHeight(db0) >= 1
    /\ \E from \in 1..GetHeight(db0) :
         \E blocks \in BlockListsOn(GetBlock(db0, from - 1).val.header) :
           /\ from + Len(blocks) <= MaxHeight
           /\ Returns("extend", Extend(db0, from, blocks), from, blocks, FALSE,
                      WillAnswer(db0, from, HeadersOf(blocks)))

\* extend from the genesis block or from beyond the tip.
ExtendMisuseAct ==
    /\ last.op = "idle"
    /\ GetHeight(db0) >= 1
    /\ \E from \in {0, GetHeight(db0) + 1} :
         \E blocks \in {<<>>, <<MkBlock(TipHeader, <<>>, 1, "none")>>} :
           Returns("extend", Extend(db0, from, blocks), from, blocks, FALSE,
                   WillAnswer(db0, from, HeadersOf(blocks)))

WillExtendAct ==
    /\ last.op = "idle"
    /\ GetHeight(db0) >= 1
    /\ \E from \in 0..(GetHeight(db0) + 1) :
         \E blocks \in {<<>>, <<MkBlock(TipHeader, <<>>, 2, "none")>>} :
           Returns("will_extend", Ok(db0), from, blocks, FALSE,
                   WillAnswer(db0, from, HeadersOf(blocks)))

\* The candidate block, when there is one, is kept in last.blocks.
DraftReturns(r, mempool) ==
    /\ store' = r.db.map
    /\ last' = [Call("draft_block", r.err, 0, r.val, TRUE, "none")
                  EXCEPT !.mempool = mempool]
    /\ UNCHANGED <<overflow_checks, snaps, node>>

DraftBlockAct ==
    /\ last.op = "idle"
    /\ \E mempool \in Mempools : DraftReturns(DraftBlock(db0, mempool), mempool)

\* The getters of the Blockchain trait: none of them writes.
Queries == {"get_height", "get_power", "get_account", "get_blocks", "get_headers",
            "pow_key"}

QueryErr(q) ==
    IF q = "get_power" THEN GetPower(db0).err
    ELSE IF q = "get_blocks" THEN GetBlocks(db0, 0, None).err
    ELSE IF q = "get_headers" THEN GetHeaders(db0, 1, Some(MaxHeight)).err
    ELSE IF q = "pow_key" THEN PowKey(db0, 200).err
    ELSE "ok"

QueryAct ==
    /\ last.op = "idle"
    /\ \E q \in Queries :
         Returns(q, Fail(QueryErr(q), db0), IF q = "pow_key" THEN 200 ELSE 0,
                 <<>>, FALSE, "none")

Next ==
    \/ NewAct
    \/ ApplyBlockAct
    \/ ApplyTxAct
    \/ RollbackBlockAct
    \/ ExtendAct
    \/ ExtendMisuseAct
    \/ WillExtendAct
    \/ DraftBlockAct
    \/ QueryAct
    \/ Return

Spec == Init /\ [][Next]_vars

(***************************************************************************)
(* The store as the claims read it.                                        *)
(***************************************************************************)
Height == GetHeight(db0)
PreDb == KvStore(last.pre)
PreHeight == GetHeight(PreDb)

\* The block indices a key of the model can carry.
Indices == 0..(MaxHeight + 1) \cup {64, 200}

KnownKeys ==
    {HeightKey}
    \cup {BlockKey(i) : i \in Indices} \cup {MerkleKey(i) : i \in Indices}
    \cup {RollbackKey(i) : i \in Indices} \cup {PowerKey(i) : i \in Indices}
    \cup {AccountKey(a) : a \in Addresses}

Has(k) == k \in DOMAIN store

RECURSIVE SumSeq(_)
SumSeq(xs) == IF xs = <<>> THEN 0 ELSE Head(xs) + SumSeq(Tail(xs))

\* The sum of the balances, absent accounts read as get_account reads them.
SumBalances(db) ==
    LET as == SetToSeq(Addresses)
    IN SumSeq([i \in 1..Len(as) |-> GetAccount(db, as[i]).balance])

\* C1: when apply_block does not succeed, the store equals the store before
\* the call.
C1_ApplyBlockFailureKeepsStore ==
    (last.op = "apply_block" /\ last.err # "ok") => store = last.pre

\* C1 witness: the second transaction of a body failed after the first had
\* been applied on the fork.
C1_Witness ==
    /\ last.op = "apply_block"
    /\ last.err = "InvalidTransactionNonce"
    /\ last.blocks[1].body = <<TxT1, TxT1>>
    /\ ApplyTx(PreDb, TxT1).err = "ok"

\* C2: when extend does not succeed, at whichever step, the store equals the
\* store before the call.
C2_ExtendFailureKeepsStore ==
    (last.op = "extend" /\ last.err # "ok") => store = last.pre

\* C2 witness: extend rolled a block back on the fork, applied its first block
\* there and failed on its second.
C2_Witness ==
    /\ last.op = "extend"
    /\ last.err \notin {"ok", "ExtendFromGenesis", "ExtendFromFuture"}
    /\ last.from < PreHeight
    /\ Len(last.blocks) = 2
    /\ ExtendOnFork(ForkOnRam(PreDb), last.from, <<last.blocks[1]>>).err = "ok"

\* C3: a successful rollback_block that undoes a block applied by apply_block
\* gives back the store as it was before that block, and leaves no block,
\* merkle, rollback or power key at or above the height.
C3_RollbackRestoresStore ==
    (last.op = "rollback_block" /\ last.err = "ok" /\ last.snap # None) =>
        /\ store = last.snap[1]
        /\ \A i \in Indices :
             i >= Height => /\ ~Has(BlockKey(i)) /\ ~Has(MerkleKey(i))
                            /\ ~Has(RollbackKey(i)) /\ ~Has(PowerKey(i))

\* C3 witness: two blocks were applied and the first of two rollbacks has
\* removed an account the undone block had created.
C3_Witness ==
    /\ last.op = "rollback_block"
    /\ last.err = "ok"
    /\ last.snap # None
    /\ Len(snaps) >= 1
    /\ \E a \in Addresses :
         AccountKey(a) \in DOMAIN last.pre /\ ~Has(AccountKey(a))

\* C4: in every state of the store the balances of all accounts sum to
\* TOTAL_SUPPLY.
C4_Conservation == SumBalances(db0) = TOTAL_SUPPLY

\* C5: the height is the number of block keys and of rollback keys, those keys
\* are the indices below the height, and block i has number i.
C5_HeightCountsBlocks ==
    /\ DOMAIN store \subseteq KnownKeys
    /\ {i \in Indices : Has(BlockKey(i))} = 0..(Height - 1)
    /\ {i \in Indices : Has(RollbackKey(i))} = 0..(Height - 1)
    /\ Cardinality({i \in Indices : Has(BlockKey(i))}) = Height
    /\ Cardinality({i \in Indices : Has(RollbackKey(i))}) = Height
    /\ \A i \in 0..(Height - 1) : store[BlockKey(i)].header.number = i

\* C5 witness: an extend that left the chain shorter than it was.
C5_Witness ==
    /\ last.op = "extend"
    /\ last.err = "ok"
    /\ 1 <= Height
    /\ Height < PreHeight

\* C6: every stored block but the first names the hash of the header of the
\* block below it as its parent, and every stored block's root is the Merkle
\* root of its body.
C6_ChainLinkage ==
    /\ \A i \in 1..(Height - 1) :
         store[BlockKey(i)].header.parent_hash
             = HashHeader(store[BlockKey(i - 1)].header)
    /\ \A i \in 0..(Height - 1) :
         store[BlockKey(i)].header.block_root = MerkleRoot(store[BlockKey(i)].body)

\* C6 witness: extend has replaced a suffix of the chain by two blocks.
C6_Witness ==
    /\ last.op = "extend"
    /\ last.err = "ok"
    /\ last.from < PreHeight
    /\ Len(last.blocks) = 2
    /\ store[BlockKey(last.from)] # last.pre[BlockKey(last.from)]

\* C7: power_i is there for every block of the chain and is power_{i-1} plus
\* the power of block i, no power key is at or above the height, and get_power
\* returns the power of the tip (0 on an empty chain).
C7_CumulativePower ==
    /\ \A i \in 0..(Height - 1) :
         /\ Has(PowerKey(i))
         /\ store[PowerKey(i)]
              = (IF i = 0 THEN 0 ELSE store[PowerKey(i - 1)])
                + Power(store[BlockKey(i)].header, PowKey(db0, i).val)
    /\ \A i \in Indices : i >= Height => ~Has(PowerKey(i))
    /\ GetPower(db0) = OkVal(IF Height = 0 THEN 0 ELSE store[PowerKey(Height - 1)])

\* C7 witness: a rollback_block has taken the tip off a chain of three blocks.
C7_Witness ==
    /\ last.op = "rollback_block"
    /\ last.err = "ok"
    /\ PreHeight = 3
    /\ Height = 2

\* C8: will_extend answers true exactly when extend, on the same store and the
\* same blocks, leaves get_power() greater than it was.
C8_WillExtendIffExtendRaisesPower ==
    last.op = "extend" =>
        ((last.will = "true") <=> (GetPower(db0).val > GetPower(PreDb).val))

\* The account keys after the old blocks from last.from on are undone and the
\* new blocks applied in order, on the store itself.
C9_Reference == ExtendOnFork(PreDb, last.from, last.blocks).db

\* C9: after a successful extend(from, blocks) the height is from + len(blocks),
\* the blocks below from are untouched, the blocks from from on are the new
\* ones, nothing is left at or above the new height, the accounts are those of
\* undoing the old blocks and applying the new ones, and get_power() is
\* power_{from-1} plus the powers of the new blocks.
C9_ExtendAdoptsFork ==
    (last.op = "extend" /\ last.err = "ok") =>
        /\ Height = last.from + Len(last.blocks)
        /\ \A i \in 0..(last.from - 1) : store[BlockKey(i)] = last.pre[BlockKey(i)]
        /\ \A k \in 1..Len(last.blocks) :
             store[BlockKey(last.from + k - 1)] = last.blocks[k]
        /\ \A i \in Indices :
             i >= Height => /\ ~Has(BlockKey(i)) /\ ~Has(MerkleKey(i))
                            /\ ~Has(RollbackKey(i)) /\ ~Has(PowerKey(i))
        /\ \A a \in Addresses :
             Get(db0, AccountKey(a)) = Get(C9_Reference, AccountKey(a))
        /\ GetPower(db0).val
             = last.pre[PowerKey(last.from - 1)]
               + SumSeq([k \in 1..Len(last.blocks) |->
                           Power(last.blocks[k].header,
                                 PowKey(db0, last.from + k - 1).val)])

\* C9 witness: extend has undone a block that had created an account and has
\* put another block in its place.
C9_Witness ==
    /\ last.op = "extend"
    /\ last.err = "ok"
    /\ last.from < PreHeight
    /\ Len(last.blocks) >= 1
    /\ \E a \in Addresses :
         AccountKey(a) \in DOMAIN last.pre /\ ~Has(AccountKey(a))

\* C10: will_extend, draft_block and the getters leave the store as it was,
\* whatever they return.
C10_ReadsKeepStore ==
    last.op \in ({"will_extend", "draft_block"} \cup Queries) => store = last.pre

\* C10 witness: draft_block has selected transactions on a fork, tried its
\* block on another and returned it.
C10_Witness ==
    /\ last.op = "draft_block"
    /\ last.err = "ok"
    /\ Len(last.blocks[1].body) >= 1

(***************************************************************************)
(* apply_tx as the claims read it: the transaction tried, and the accounts *)
(* before and after it.                                                    *)
(***************************************************************************)
TriedTx == last.tx[1]
AccountIn(m, a) == GetAccount(KvStore(m), a)
AccountKeys == {AccountKey(a) : a \in Addresses}
IsRegularSend(tx) == tx.data.kind = "RegularSend"

\* The keys of m that are no account key, with their values.
NonAccountPart(m) == [k \in (DOMAIN m) \ AccountKeys |-> m[k]]

\* C11: a successful apply_tx of a RegularSend advances the nonce of the
\* source by 1, moves amount from the source to the destination and takes the
\* fee from the source (only the fee on a transfer to oneself), and changes
\* no other account and no other key.
C11_ApplyTxEffect ==
    (last.op = "apply_tx" /\ last.err = "ok") =>
        LET tx == TriedTx
            src == tx.src
            dst == tx.data.dst
            amount == tx.data.amount
            before == [a \in Addresses |-> AccountIn(last.pre, a)]
            after == [a \in Addresses |-> AccountIn(last.post, a)]
        IN /\ IsRegularSend(tx)
           /\ after[src].nonce = before[src].nonce + 1
           /\ dst # src =>
                /\ after[src].balance = before[src].balance - (amount + tx.fee)
                /\ after[dst].balance = before[dst].balance + amount
                /\ after[dst].nonce = before[dst].nonce
           /\ dst = src => after[src].balance = before[src].balance - tx.fee
           /\ \A a \in Addresses \ {src, dst} :
                Get(KvStore(last.post), AccountKey(a))
                    = Get(KvStore(last.pre), AccountKey(a))
           /\ NonAccountPart(last.post) = NonAccountPart(last.pre)

\* C12 as stated: apply_tx of a RegularSend whose nonce is not the nonce of
\* the source plus 1 fails with InvalidTransactionNonce and changes nothing.
C12_WrongNonceRejected ==
    (/\ last.op = "apply_tx"
     /\ IsRegularSend(TriedTx)
     /\ TriedTx.nonce # AccountIn(last.pre, TriedTx.src).nonce + 1) =>
        /\ last.err = "InvalidTransactionNonce"
        /\ last.post = last.pre

\* C12 amended: apply_tx of a RegularSend whose signature verifies and whose
\* nonce is not the nonce of the source plus 1 fails with
\* InvalidTransactionNonce and changes nothing; and a transaction that was
\* applied is refused with InvalidTransactionNonce on the resulting state.
C12_WrongNonceRejectedAfterSignature ==
    /\ (/\ last.op = "apply_tx"
        /\ IsRegularSend(TriedTx)
        /\ VerifySignature(TriedTx)
        /\ TriedTx.nonce # AccountIn(last.pre, TriedTx.src).nonce + 1) =>
           /\ last.err = "InvalidTransactionNonce"
           /\ last.post = last.pre
    /\ (last.op = "apply_tx" /\ last.err = "ok") =>
           ApplyTx(KvStore(last.post), TriedTx).err = "InvalidTransactionNonce"

\* C12 witness: a signed transaction was offered again after a block had
\* applied it.
C12_Witness ==
    /\ last.op = "apply_tx"
    /\ last.err = "InvalidTransactionNonce"
    /\ TriedTx = TxA1
    /\ AccountIn(last.pre, AddrA).nonce = 1

\* C13: a RegularSend (signature and nonce in order) whose amount plus fee
\* exceeds the balance of the source fails with BalanceInsufficient, and the
\* balances a successful apply_tx stores are the exact differences and sums,
\* never wrapped ones.
C13_NoOverflow ==
    (/\ last.op = "apply_tx"
     /\ IsRegularSend(TriedTx)
     /\ VerifySignature(TriedTx)
     /\ TriedTx.nonce = AccountIn(last.pre, TriedTx.src).nonce + 1) =>
        LET tx == TriedTx
            src == tx.src
            dst == tx.data.dst
        IN /\ tx.data.amount + tx.fee > AccountIn(last.pre, src).balance
                => last.err = "BalanceInsufficient"
           /\ last.err = "ok" =>
                /\ AccountIn(last.post, src).balance
                     = AccountIn(last.pre, src).balance - DebitOf(tx)
                /\ dst # src =>
                     AccountIn(last.post, dst).balance
                       = AccountIn(last.pre, dst).balance + tx.data.amount

\* The blocks of the last call that carry a transaction other than a
\* RegularSend.
CarriesOther(blocks) ==
    \E i \in 1..Len(blocks) :
        \E j \in 1..Len(blocks[i].body) : ~IsRegularSend(blocks[i].body[j])

\* C14: apply_tx of a transaction that is no RegularSend returns an error
\* without aborting and without writing, and so do apply_block and extend on a
\* block that carries one.
C14_OtherVariantsRejected ==
    /\ (last.op = "apply_tx" /\ ~IsRegularSend(TriedTx)) =>
           /\ last.err \notin {"ok", "panic"}
           /\ last.post = last.pre
    /\ (last.op \in {"apply_block", "extend"} /\ CarriesOther(last.blocks)) =>
           /\ last.err \notin {"ok", "panic"}
           /\ store = last.pre

(***************************************************************************)
(* The transactions of the chain, as C15 and C16 count them.               *)
(***************************************************************************)
\* The transactions of a list of blocks, in order.
RECURSIVE BodiesOf(_)
BodiesOf(blocks) ==
    IF blocks = <<>> THEN <<>> ELSE Head(blocks).body \o BodiesOf(Tail(blocks))

\* The RegularSend transactions of a list of blocks that debit a, in order.
DebitsOf(blocks, a) ==
    SelectSeq(BodiesOf(blocks), LAMBDA tx : IsRegularSend(tx) /\ tx.src = a)

\* The blocks i..j-1 stored in the map m.
StoredBlocks(m, i, j) == [k \in 1..(j - i) |-> m[BlockKey(i + k - 1)]]

NonceIn(m, a) == AccountIn(m, a).nonce

\* C15: the nonce of every account is the number of RegularSend transactions
\* of the stored blocks that have the account as source, and these carry the
\* nonces 1, 2, ... in chain order.
C15_NonceCountsDebits ==
    \A a \in Addresses :
        LET debits == DebitsOf(StoredBlocks(store, 0, Height), a)
        IN /\ NonceIn(store, a) = Len(debits)
           /\ \A i \in 1..Len(debits) : debits[i].nonce = i

\* C15 witness: extend has replaced two debits of Treasury by one.
C15_Witness ==
    /\ last.op = "extend"
    /\ last.err = "ok"
    /\ last.from < PreHeight
    /\ NonceIn(last.pre, Treasury) = 2
    /\ NonceIn(store, Treasury) = 1

\* C16 as stated: across apply_block, rollback_block and extend no nonce
\* decreases.
C16_NonceNeverDecreases ==
    last.op \in {"apply_block", "rollback_block", "extend"} =>
        \A a \in Addresses : NonceIn(store, a) >= NonceIn(last.pre, a)

\* C16 amended: a successful apply_block or extend advances the nonce of an
\* account by 1 for each transaction of the applied blocks that debits it, a
\* successful rollback_block or the rollbacks of an extend lower it by 1 for
\* each such transaction of the undone blocks, and a failed call leaves it.
C16_NonceFollowsDebits ==
    /\ (last.op = "apply_block" /\ last.err = "ok") =>
           \A a \in Addresses :
               NonceIn(store, a)
                   = NonceIn(last.pre, a) + Len(DebitsOf(last.blocks, a))
    /\ (last.op = "rollback_block" /\ last.err = "ok") =>
           \A a \in Addresses :
               NonceIn(store, a)
                   = NonceIn(last.pre, a)
                     - Len(DebitsOf(StoredBlocks(last.pre, Height, PreHeight), a))
    /\ (last.op = "extend" /\ last.err = "ok") =>
           \A a \in Addresses :
               NonceIn(store, a)
                   = NonceIn(last.pre, a)
                     - Len(DebitsOf(StoredBlocks(last.pre, last.from, PreHeight), a))
                     + Len(DebitsOf(last.blocks, a))
    /\ (last.op \in {"apply_block", "rollback_block", "extend"}
        /\ last.err # "ok") =>
           \A a \in Addresses : NonceIn(store, a) = NonceIn(last.pre, a)

\* C16 witness: a block with a debit of Treasury and a debit of pkA was
\* applied.
C16_Witness ==
    /\ last.op = "apply_block"
    /\ last.err = "ok"
    /\ last.blocks[1].body = <<TxT1, TxA1>>
    /\ NonceIn(store, Treasury) = NonceIn(last.pre, Treasury) + 1
    /\ NonceIn(store, AddrA) = 1

\* C17: on a chain that has a block, draft_block returns a block numbered
\* with the height, on top of the last block, with the Merkle root of its
\* body and the target of the last block, which apply_block(block, true)
\* accepts on the current state; it returns no BlockchainError.
C17_DraftBlockIsValid ==
    (last.op = "draft_block" /\ PreHeight >= 1) =>
        /\ last.err \in {"ok", "panic"}
        /\ last.err = "ok" =>
             LET blk == last.blocks[1]
                 tip == last.pre[BlockKey(PreHeight - 1)]
             IN /\ blk.header.number = PreHeight
                /\ blk.header.parent_hash = HashHeader(tip.header)
                /\ blk.header.block_root = MerkleRoot(blk.body)
                /\ blk.header.proof_of_work.target
                     = tip.header.proof_of_work.target
                /\ ApplyBlock(PreDb, blk, TRUE).err = "ok"

\* C17 witness: draft_block has returned a block of two transactions on top
\* of a block other than the genesis block.
C17_Witness ==
    /\ last.op = "draft_block"
    /\ last.err = "ok"
    /\ PreHeight >= 2
    /\ Len(last.blocks[1].body) = 2

\* C18: constructing the chain on a store of height 0 applies the genesis
\* block: the height is 1, Treasury holds TOTAL_SUPPLY with nonce 0 and every
\* public-key address holds 0 with nonce 0; constructing it on a store that
\* has blocks changes no key.
C18_NewAppliesGenesisOnce ==
    last.op = "new" =>
        /\ last.err = "ok"
        /\ PreHeight = 0 =>
             /\ Height = 1
             /\ store[BlockKey(0)] = GenesisBlock
             /\ GetAccount(db0, Treasury) = [balance |-> TOTAL_SUPPLY, nonce |-> 0]
             /\ \A pk \in PubKeys :
                  GetAccount(db0, PublicKey(pk)) = [balance |-> 0, nonce |-> 0]
        /\ PreHeight > 0 => store = last.pre

\* C18 witness: the chain was constructed again on a store whose genesis
\* block had been rolled back.
C18_Witness ==
    /\ last.op = "new"
    /\ last.err = "ok"
    /\ PreHeight = 0
    /\ Height = 1

\* The arguments get_blocks and get_headers are read with.
SinceArgs == 0..(MaxHeight + 1)
UntilArgs == {None} \cup {Some(n) : n \in 0..(MaxHeight + 1)}

\* The end of the range: until, or the height when until is absent or above.
ClipEnd(until) == IF until = None \/ until[1] > Height THEN Height ELSE until[1]

\* C19: get_blocks(since, until) returns the stored blocks with the indices
\* from since up to, not including, the smaller of until and the height, in
\* ascending order (none when since is at or above that end), and get_headers
\* returns the headers of these blocks.
C19_GetBlocksClipped ==
    last.op \in {"get_blocks", "get_headers"} =>
        \A since \in SinceArgs, until \in UntilArgs :
            /\ GetBlocks(db0, since, until)
                 = OkVal(StoredBlocks(store, since, ClipEnd(until)))
            /\ GetHeaders(db0, since, until)
                 = OkVal(HeadersOf(StoredBlocks(store, since, ClipEnd(until))))

\* C19 witness: get_blocks on a chain of three blocks, where (1, 2) is one
\* block, (1, 5) two and (3, none) none.
C19_Witness ==
    /\ last.op = "get_blocks"
    /\ Height = 3
    /\ GetBlocks(db0, 1, Some(2)).val = <<store[BlockKey(1)]>>
    /\ Len(GetBlocks(db0, 1, Some(5)).val) = 2
    /\ GetBlocks(db0, 3, None).val = <<>>

\* What the last call answered about its from: the result of extend and what
\* will_extend said on the same store, or the result of will_extend.
RangeAnswers == IF last.op = "extend" THEN {last.err, last.will} ELSE {last.will}

\* C20: will_extend and extend answer ExtendFromGenesis for from = 0 and
\* ExtendFromFuture for from above the height, whatever the list, and write
\* nothing; from = height is in range, and a successful extend from the height
\* appends its blocks and leaves every block of the chain in place.
C20_ExtendRange ==
    last.op \in {"extend", "will_extend"} =>
        /\ last.from = 0 =>
             RangeAnswers = {"ExtendFromGenesis"} /\ store = last.pre
        /\ last.from > PreHeight =>
             RangeAnswers = {"ExtendFromFuture"} /\ store = last.pre
        /\ (last.from >= 1 /\ last.from <= PreHeight) =>
             RangeAnswers \cap {"ExtendFromGenesis", "ExtendFromFuture"} = {}
        /\ (last.op = "extend" /\ last.err = "ok" /\ last.from = PreHeight) =>
             /\ Height = PreHeight + Len(last.blocks)
             /\ \A k \in (DOMAIN last.pre) \ (AccountKeys \cup {HeightKey}) :
                  Has(k) /\ store[k] = last.pre[k]

\* C20 witness: extend was offered a block from above the height.
C20_Witness ==
    /\ last.op = "extend"
    /\ last.from = PreHeight + 1
    /\ Len(last.blocks) = 1
    /\ last.err = "ExtendFromFuture"
    /\ last.will = "ExtendFromFuture"

(***************************************************************************)
(* The block of the last apply_block as C21 and C22 read it.               *)
(***************************************************************************)
TriedBlock == last.blocks[1]
TriedKey == PowKey(PreDb, TriedBlock.header.number)
PreTip == last.pre[BlockKey(PreHeight - 1)]
NumberOk == TriedBlock.header.number = PreHeight
ParentOk == TriedBlock.header.parent_hash = HashHeader(PreTip.header)
RootOk == TriedBlock.header.block_root = MerkleRoot(TriedBlock.body)
TargetMet == MeetsTarget(TriedBlock.header, TriedKey.val)

\* C21: on a chain with blocks, apply_block in strict mode answers
\* DifficultyTargetUnmet for a block that does not meet its target under
\* pow_key(number); in draft mode it accepts such a block when its number,
\* parent hash, Merkle root and transactions are in order; and every block
\* extend has committed meets its target.
C21_StrictChecksPow ==
    /\ (/\ last.op = "apply_block" /\ PreHeight > 0
        /\ TriedKey.err = "ok" /\ ~TargetMet) =>
           IF ~last.draft
           THEN last.err = "DifficultyTargetUnmet" /\ store = last.pre
           ELSE (/\ NumberOk /\ ParentOk /\ RootOk
                 /\ ApplyTxs(ForkOnRam(PreDb), TriedBlock.body).err = "ok") =>
                    /\ last.err = "ok"
                    /\ store[BlockKey(PreHeight)] = TriedBlock
    /\ (last.op = "extend" /\ last.err = "ok") =>
           \A k \in 1..Len(last.blocks) :
               MeetsTarget(last.blocks[k].header,
                           PowKey(db0, last.blocks[k].header.number).val)

\* C21 witness: a block with a transaction that does not meet its target was
\* accepted in draft mode.
C21_Witness ==
    /\ last.op = "apply_block"
    /\ last.draft
    /\ last.err = "ok"
    /\ ~TargetMet
    /\ Len(TriedBlock.body) >= 1

\* The first check that fails, in the order proof of work (strict mode only),
\* number, parent hash, Merkle root.
FirstFailing ==
    IF ~last.draft /\ ~TargetMet THEN "DifficultyTargetUnmet"
    ELSE IF ~NumberOk THEN "InvalidBlockNumber"
    ELSE IF ~ParentOk THEN "InvalidParentHash"
    ELSE IF ~RootOk THEN "InvalidMerkleRoot"
    ELSE "ok"

\* C22 as stated: on a chain with blocks, apply_block answers with the error
\* of the first failing check in the order proof of work (strict mode only),
\* number, parent hash, Merkle root, and writes nothing.  (In strict mode the
\* proof of work is read under pow_key(number), so the statement is taken for
\* the blocks that have such a key.)
C22_FirstFailingCheckAnswers ==
    (/\ last.op = "apply_block" /\ PreHeight > 0
     /\ (last.draft \/ TriedKey.err = "ok")
     /\ FirstFailing # "ok") =>
        /\ last.err = FirstFailing
        /\ store = last.pre

\* C22 amended: on a chain with blocks, apply_block first reads
\* pow_key(number), in both modes, and answers with its error when there is
\* none; otherwise it answers with the error of the first failing check in
\* the order proof of work (strict mode only), number, parent hash, Merkle
\* root, whatever the transactions of the block would do; it writes nothing
\* in either case.
C22_HeaderChecksInOrder ==
    (last.op = "apply_block" /\ PreHeight > 0) =>
        /\ TriedKey.err # "ok" =>
             last.err = TriedKey.err /\ store = last.pre
        /\ (TriedKey.err = "ok" /\ FirstFailing # "ok") =>
             last.err = FirstFailing /\ store = last.pre

\* C22 witness: a block with a wrong number, parent hash and Merkle root whose
\* transaction would fail as well was refused for its number.
C22_Witness ==
    /\ last.op = "apply_block"
    /\ last.draft
    /\ ~NumberOk /\ ~ParentOk /\ ~RootOk
    /\ ApplyTxs(ForkOnRam(PreDb), TriedBlock.body).err # "ok"
    /\ last.err = "InvalidBlockNumber"

(***************************************************************************)
(* C23: the selection of a block body from a mempool.                      *)
(***************************************************************************)
MaxNonce == 3

\* The mempool sorted by nonce, transactions of equal nonce in mempool order.
RECURSIVE StableFrom(_, _)
StableFrom(mempool, n) ==
    IF n > MaxNonce THEN <<>>
    ELSE SelectSeq(mempool, LAMBDA tx : tx.nonce = n) \o StableFrom(mempool, n + 1)

\* The transactions of txs that apply, each on the state left by the ones
\* kept before it.
RECURSIVE KeptAfter(_, _, _)
RECURSIVE KeptOn(_, _)
KeptAfter(r, tx, rest) ==
    IF r.err = "ok" THEN <<tx>> \o KeptOn(r.db, rest) ELSE KeptOn(r.db, rest)
KeptOn(fork, txs) ==
    IF txs = <<>> THEN <<>>
    ELSE KeptAfter(ApplyTx(fork, Head(txs)), Head(txs), Tail(txs))

\* C23: on a chain with blocks, draft_block returns Ok for every mempool, and
\* the body of its block is the mempool stably sorted by nonce, less the
\* transactions that do not apply in that order on a RAM fork.
C23_SelectionNeverFails ==
    (last.op = "draft_block" /\ PreHeight >= 1) =>
        /\ last.err = "ok"
        /\ last.blocks[1].body
             = KeptOn(ForkOnRam(PreDb), StableFrom(last.mempool, 0))

(***************************************************************************)
(* The key schedule on a long chain: a second state machine, on a chain    *)
(* of DeepHeight blocks, whose calls are pow_key and extend, the latter    *)
(* with one block on the tip or with a fork from DeepFrom, the first       *)
(* reference block above the genesis block, to DeepLast, the first block   *)
(* whose key is the hash of that reference block.                          *)
(***************************************************************************)
DeepTipBlocks == 1
DeepFrom == POW_KEY_CHANGE_INTERVAL
DeepLast == POW_KEY_CHANGE_DELAY + POW_KEY_CHANGE_INTERVAL
DeepHeight == DeepFrom + 1
DeepMaxHeight == DeepHeight + DeepTipBlocks
DeepIndices == {0, 63, 64, 191, 192, 319, 320}

\* A nonce that meets GenesisTarget for a block below DeepLast.
EasyNonce(number) == IF number < 64 THEN 1 ELSE 0

TipHeaderOf(db) == GetBlock(db, GetHeight(db) - 1).val.header

\* The chain db with n more empty blocks, each applied by apply_block: the
\* first half of them, then the others on the chain so obtained.
RECURSIVE Grown(_, _)
Grown(db, n) ==
    IF n = 0 THEN db
    ELSE IF n = 1
    THEN ApplyBlock(db, MkBlock(TipHeaderOf(db), <<>>,
                                EasyNonce(GetHeight(db)), "none"),
                    FALSE).db
    ELSE CHOOSE grown \in {Grown(half, n - (n \div 2)) :
                              half \in {Grown(db, n \div 2)}} : TRUE

\* Empty blocks on top of a parent header, one for each nonce.
RECURSIVE ChainOn(_, _)
ChainOnNext(b, nonces) == <<b>> \o ChainOn(b.header, nonces)
ChainOn(parent, nonces) ==
    IF nonces = <<>> THEN <<>>
    ELSE ChainOnNext(MkBlock(parent, <<>>, Head(nonces), "none"), Tail(nonces))

\* The nonces of a fork from DeepFrom to DeepLast.
ForkNonces(first, final) ==
    [k \in 1..(DeepLast - DeepFrom + 1) |->
        IF k = 1 THEN first
        ELSE IF k = DeepLast - DeepFrom + 1 THEN final
        ELSE EasyNonce(DeepFrom + k - 1)]

\* The block lists offered to extend from a block number.
DeepBlockLists(from) ==
    IF from = DeepFrom
    THEN {ChainOn(GetBlock(db0, DeepFrom - 1).val.header, ForkNonces(a, b)) :
             a \in {0, 1}, b \in PowNonces}
    ELSE IF from < DeepMaxHeight
    THEN {<<MkBlock(TipHeader, <<>>, n, "none")>> : n \in PowNonces}
    ELSE {}

DeepInit ==
    /\ overflow_checks \in BOOLEAN
    /\ \E genesis \in {New(KvStore(EmptyMap)).db} :
         store = Grown(genesis, DeepHeight - 1).map
    /\ last = Idle
    /\ snaps = <<>>
    /\ node = NodeStart

DeepExtendAct ==
    /\ last.op = "idle"
    /\ \E from \in {DeepFrom, GetHeight(db0)} :
         \E blocks \in DeepBlockLists(from) :
           Returns("extend", Extend(db0, from, blocks), from, blocks, FALSE, "none")

PowKeyReturns(index, r) ==
    /\ last' = [Call("pow_key", r.err, index, <<>>, FALSE, "none")
                  EXCEPT !.key = r.val]
    /\ UNCHANGED <<store, overflow_checks, snaps, node>>

PowKeyAct ==
    /\ last.op = "idle"
    /\ \E index \in DeepIndices : PowKeyReturns(index, PowKey(db0, index))

DeepNext ==
    \/ DeepExtendAct
    \/ PowKeyAct
    \/ Return

SpecDeep == DeepInit /\ [][DeepNext]_vars

(***************************************************************************)
(* C24: the key schedule.                                                  *)
(***************************************************************************)
\* The block whose header hash is the key of block index, for index >= 64.
ReferenceOf(index) ==
    ((index - POW_KEY_CHANGE_DELAY) \div POW_KEY_CHANGE_INTERVAL)
        * POW_KEY_CHANGE_INTERVAL

\* The last block of the list given to extend.
LastTried == last.blocks[Len(last.blocks)]
ReachesDeepLast ==
    /\ last.op = "extend" /\ last.from = DeepFrom
    /\ Len(last.blocks) = DeepLast - DeepFrom + 1

\* C24: pow_key(i) is the base key for i < 64; for i >= 64 the subtraction
\* does not underflow, the reference block is below i, and pow_key(i) is the
\* hash of its header, or BlockNotFound when the chain is not that high.
\* An extend from block 128 to block 192 judges block 192 under the hash of
\* the block 128 it is given, not of the block 128 it replaces.
C24_KeySchedule ==
    /\ last.op = "pow_key" =>
          IF last.from < 64
          THEN last.err = "ok" /\ last.key = POW_BASE_KEY
          ELSE /\ last.from - POW_KEY_CHANGE_DELAY >= 0
               /\ ReferenceOf(last.from) < last.from
               /\ IF ReferenceOf(last.from) >= PreHeight
                  THEN last.err = "BlockNotFound" /\ last.key = None
                  ELSE /\ last.err = "ok"
                       /\ last.key
                            = HashHeader(
                                last.pre[BlockKey(ReferenceOf(last.from))].header)
    /\ ReachesDeepLast =>
          IF MeetsTarget(LastTried.header, HashHeader(last.blocks[1].header))
          THEN /\ last.err = "ok"
               /\ store[BlockKey(DeepLast)] = LastTried
               /\ PowKey(db0, DeepLast).val = HashHeader(last.blocks[1].header)
          ELSE last.err = "DifficultyTargetUnmet" /\ store = last.pre

\* C24 witness: an extend has replaced block 128 and committed a block 192
\* that misses its target under the hash of the block 128 it replaced.
C24_Witness ==
    /\ ReachesDeepLast /\ last.err = "ok"
    /\ last.pre[BlockKey(DeepFrom)] # last.blocks[1]
    /\ ~MeetsTarget(LastTried.header,
                    HashHeader(last.pre[BlockKey(DeepFrom)].header))

(***************************************************************************)
(* C25: extend and the cumulative power.                                   *)
(***************************************************************************)
\* C25: after a successful extend the cumulative power is strictly greater
\* than before it, and the height is at least 1.
C25_ExtendRaisesPower ==
    (last.op = "extend" /\ last.err = "ok") =>
        /\ GetPower(db0).val > GetPower(PreDb).val
        /\ Height >= 1

(***************************************************************************)
(* The node: one heartbeat task and the post_miner_solution handler on one *)
(* NodeContext behind a read/write lock.  Every action is what a task does *)
(* while it holds the write lock; between two actions of the heartbeat the *)
(* lock is free and a miner's solution can be handled.                     *)
(***************************************************************************)
NodeMaxHeight == MaxHeight

\* The mempools of the node: empty, transactions of which one applies, and
\* one with a transaction that is no RegularSend.
NodeMempools == {<<>>, <<TxA1, TxT1>>, <<TxT1, TxOther>>}

\* NodeContext::get_puzzle: the candidate block the node hands to the miner,
\* draft_block on the node's mempool.
GetPuzzle(db, mempool) == DraftBlock(db, mempool)

\* Where the heartbeat task is after a section returned err: a panic ends
\* the task, an error ends this heartbeat and the loop calls the next.
AfterSection(err, next) ==
    IF err = "panic" THEN "dead" ELSE IF err = "ok" THEN next ELSE "start"

\* The header a peer's blocks since a height are built on: the block below
\* that height on this chain, when there is one.
PeerParent(height) ==
    IF height >= 1 /\ height <= GetHeight(db0)
    THEN GetBlock(db0, height - 1).val.header
    ELSE TipHeader

\* The chains a peer has since a height: nothing, one block or two blocks
\* on the block below that height.
PeerChains(height) ==
    {blocks \in
        {<<>>}
        \cup {<<MkBlock(PeerParent(height), <<>>, n, "none")>> : n \in {1, 2}}
        \cup {<<MkBlock(PeerParent(height), <<>>, n, "none"),
                MkBlock(MkBlock(PeerParent(height), <<>>, n, "none").header,
                        <<>>, n, "none")>> : n \in {1, 2}} :
        height + Len(blocks) <= NodeMaxHeight}

\* What a peer answers to the request for its blocks since a height: the
\* request fails (None), or it answers a chain or a block with a wrong root.
PeerBlocks(height) ==
    {None} \cup {Some(blocks) : blocks \in PeerChains(height)}
    \cup {Some(<<MkBlock(PeerParent(height), <<>>, 1, "root")>>) :
            h \in {i \in {height} : i + 1 <= NodeMaxHeight}}

\* What a peer answers to the two requests of a heartbeat: the headers of
\* the chain it claims (a peer whose request for headers fails is left out
\* of the loop, as is one that answers no header), and its blocks.
PeerAnswers(height) ==
    {[claimed |-> <<>>, blocks |-> None]}
    \cup {[claimed |-> c, blocks |-> b] :
            c \in PeerChains(height) \ {<<>>}, b \in PeerBlocks(height)}

\* heartbeat, lines 28-37: the height is read under the lock, which is then
\* released.
HeartbeatStart ==
    /\ node.hb = "start"
    /\ node' = [node EXCEPT !.hb = "stats", !.height = GetHeight(db0)]
    /\ last' = Idle
    /\ UNCHANGED <<store, overflow_checks, snaps>>

\* heartbeat, lines 52-86: the peers' statistics, under the lock.
HeartbeatStats ==
    /\ node.hb = "stats"
    /\ node' = [node EXCEPT !.hb = AfterSection(GetPower(db0).err, "sync")]
    /\ last' = Idle
    /\ UNCHANGED <<store, overflow_checks, snaps>>

\* The record of a call made on the store pre.
CallOn(pre, op, err, from, blocks, will) ==
    [Call(op, err, from, blocks, FALSE, will) EXCEPT !.pre = pre]

\* ctx.blockchain.extend(height, &resp.blocks)?
SyncExtends(acc, blocks, r) ==
    [err |-> r.err, db |-> r.db,
     last |-> CallOn(acc.db.map, "extend", r.err, node.height, blocks, "true")]

\* No extend: the peer has nothing better, or will_extend or the request for
\* the blocks failed and the heartbeat returns the error.
SyncSkips(acc, resp, err, w) ==
    [err |-> err, db |-> acc.db,
     last |-> CallOn(acc.db.map, "will_extend", "ok", node.height,
                     resp.claimed, WillText(w))]

\* One turn of the loop over the header responses, after will_extend.
SyncReturns(acc, resp, w) ==
    IF w.err # "ok" THEN SyncSkips(acc, resp, w.err, w)
    ELSE IF ~w.val THEN SyncSkips(acc, resp, "ok", w)
    ELSE IF resp.blocks = None THEN SyncSkips(acc, resp, "Network", w)
    ELSE SyncExtends(acc, resp.blocks[1],
                     Extend(acc.db, node.height, resp.blocks[1]))

\* for (peer, resp) in resps.iter() { .. }: each response is handled on the
\* store the one before it left, with the same height; an error ends the
\* loop and the heartbeat.
SyncPeer(acc, resp) ==
    IF acc.err # "ok" \/ resp.claimed = <<>> THEN acc
    ELSE SyncReturns(acc, resp,
                     WillExtend(acc.db, node.height, HeadersOf(resp.claimed)))

SyncLoop(first, second) ==
    CHOOSE done \in
        {SyncPeer(acc, second) :
            acc \in {SyncPeer([err |-> "ok", db |-> db0, last |-> Idle], first)}} :
        TRUE

SyncDone(done) ==
    /\ store' = done.db.map
    /\ last' = done.last
    /\ node' = [node EXCEPT !.hb = AfterSection(done.err, "puzzle")]
    /\ UNCHANGED <<overflow_checks, snaps>>

\* heartbeat, lines 101-138, with two peers: every will_extend and extend is
\* given the height read at the start of the heartbeat, and the blocks come
\* from a request of their own.
HeartbeatSync ==
    /\ node.hb = "sync"
    /\ \E first \in PeerAnswers(node.height), second \in PeerAnswers(node.height) :
         SyncDone(SyncLoop(first, second))

\* let (blk, puzzle) = ctx.get_puzzle(w)?;
\* if m.block.is_none() { json_post(webhook, puzzle).await?; m.block = Some(blk); }
PuzzleReturns(p, posted) ==
    /\ node' = IF p.err = "ok" /\ node.miner = None /\ posted
               THEN [node EXCEPT !.hb = "start", !.miner = p.val, !.posted = p.val]
               ELSE [node EXCEPT !.hb = AfterSection(p.err, "start")]
    /\ last' = Idle
    /\ UNCHANGED <<store, overflow_checks, snaps>>

\* heartbeat, lines 140-152: the candidate block is drafted, and its puzzle
\* is posted to the miner when the miner has no block; the post succeeds or
\* fails.
HeartbeatPuzzle ==
    /\ node.hb = "puzzle"
    /\ \E mempool \in NodeMempools, posted \in BOOLEAN :
         PuzzleReturns(GetPuzzle(db0, mempool), posted)

\* The block the miner was given, with the nonce of the solution.
Solved(block, nonce) == [block EXCEPT !.header.proof_of_work.nonce = nonce]

\* if extend(block.header.number, &vec![block]).is_ok() { miner.block = None; }
SolutionReturns(block, r) ==
    /\ store' = r.db.map
    /\ last' = Call("extend", r.err, block.header.number, <<block>>, FALSE, "none")
    /\ node' = [node EXCEPT !.miner = IF r.err = "ok" THEN None ELSE node.miner]
    /\ UNCHANGED <<overflow_checks, snaps>>

\* post_miner_solution, when the miner has a block (without one it returns
\* NoCurrentlyMiningBlockError and changes nothing).  Solutions are explored
\* for blocks below NodeMaxHeight.
PostMinerSolution ==
    /\ node.miner # None
    /\ node.miner[1].header.number < NodeMaxHeight
    /\ \E nonce \in PowNonces :
         SolutionReturns(Solved(node.miner[1], nonce),
                         Extend(db0, node.miner[1].header.number,
                                <<Solved(node.miner[1], nonce)>>))

NodeNext ==
    \/ HeartbeatStart
    \/ HeartbeatStats
    \/ HeartbeatSync
    \/ HeartbeatPuzzle
    \/ PostMinerSolution

SpecNode == Init /\ [][NodeNext]_vars

\* The blocks of the store before the call, below its height.
KeptBlocks ==
    \A i \in 0..(PreHeight - 1) :
        /\ BlockKey(i) \in DOMAIN store
        /\ store[BlockKey(i)] = last.pre[BlockKey(i)]

\* C26: heartbeat and post_miner_solution call extend with from equal to the
\* height of the chain at the call, and a successful call rolls no committed
\* block back and does not lower the cumulative power.
C26_ExtendFromCurrentHeight ==
    last.op = "extend" =>
        /\ last.from = PreHeight
        /\ last.err = "ok" =>
              /\ KeptBlocks
              /\ GetPower(db0).val >= GetPower(PreDb).val

(***************************************************************************)
(* C27: the miner's block.  Fairness: the heartbeater loop calls heartbeat *)
(* again and again and each of its sections gets the lock, and solutions   *)
(* go on being posted and handled while the miner has a block.  Nothing is *)
(* assumed of what the peers, the webhook or the miner send.               *)
(***************************************************************************)
\* ENABLED <<PostMinerSolution>>_vars: the miner has a block for which
\* solutions are explored (a solution that meets the target changes the
\* state).
SolutionAwaited ==
    node.miner # None /\ node.miner[1].header.number < NodeMaxHeight

\* Weak fairness of the four sections of heartbeat and of
\* post_miner_solution.  HeartbeatSync and HeartbeatPuzzle are enabled
\* exactly when hb is "sync" and "puzzle" and each of their steps changes hb,
\* so their weak fairness is that hb does not stay there for ever; that of
\* PostMinerSolution is written out with ENABLED given as SolutionAwaited.
SpecNodeFair ==
    /\ SpecNode
    /\ WF_vars(HeartbeatStart)
    /\ WF_vars(HeartbeatStats)
    /\ []<>(node.hb # "sync")
    /\ []<>(node.hb # "puzzle")
    /\ ([]<>(~SolutionAwaited) \/ []<><<PostMinerSolution>>_vars)

\* post_miner_solution has just run extend on the miner's block, and extend
\* failed.
SolutionFailed ==
    /\ node.miner # None
    /\ last.op = "extend" /\ last.will = "none" /\ last.err # "ok"
    /\ last.blocks[1].body = node.miner[1].body
    /\ last.from = node.miner[1].header.number

WalletTxTried ==
    /\ last.op = "apply_tx"
    /\ last.tx[1] \in WalletTxs
    /\ GetAccount(PreDb, last.tx[1].src).nonce = 0
    /\ GetAccount(PreDb, last.tx[1].src).balance
          >= last.tx[1].data.amount + last.tx[1].fee

\* C28: a transaction built by Wallet::create_transaction for an account with
\* nonce 0 and balance >= amount + fee passes verify_signature and is
\* accepted by apply_tx.
C28_WalletTxAccepted ==
    WalletTxTried => VerifySignature(last.tx[1]) /\ last.err = "ok"

\* What the code does with it: the signature verifies and apply_tx answers
\* InvalidTransactionNonce, the fork left as it was.
C28_WalletTxRejected ==
    WalletTxTried =>
        /\ VerifySignature(last.tx[1])
        /\ last.tx[1].nonce = 0
        /\ last.err = "InvalidTransactionNonce"
        /\ last.post = Content(PreDb)

====
